---- MODULE Spec2Model ----
(***************************************************************************)
(* Model of table_styler.py: the TableStyler subclass of the pandas        *)
(* Styler.                                                                 *)
(*                                                                         *)
(* A property list ("props") is a Python list, i.e. a mutable object that  *)
(* can be referenced from several rule dictionaries.  The model therefore  *)
(* keeps every property list on a heap (a sequence of lists, the address   *)
(* of a list is its index) and a rule dictionary holds the address of its  *)
(* property list.  Rule dictionaries themselves are built by a fresh dict  *)
(* display ({"selector": ..., **d}) at every use and are kept by value.    *)
(*                                                                         *)
(* The DataFrame handed to the constructor is kept by reference            *)
(* (Styler.__init__ stores it as self.data), so the model has one          *)
(* DataFrame, data, that the caller may keep changing.                     *)
(***************************************************************************)
EXTENDS Integers, Sequences, FiniteSets, TLC

\* Largest number of columns of the DataFrame.
MaxCols == 2
\* Largest number of in-place modifications of rules by client code.
MaxEdits == 1

\* Python's None.
None == "None"
\* Display function of a cell that was never formatted (Styler's default).
DefaultDisplay == "default"

\* Column labels, unique within a DataFrame.
ColumnNames == <<"Name", "Count", "Joined", "Score", "Ratio">>
\* Declared column types: object, naive datetime, integer, tz-aware datetime.
DTypes == {"O", "<M8[ns]", "int64", "datetime64[ns, UTC]"}
\* The TableStyler objects; Single is the object followed on its own.
Stylers == {"s1", "s2"}
Single == {"s1"}

\* Arguments the operations are called with.
Backgrounds == {"#fff4f9"}
Foregrounds == {"#b28d9f"}
EvenRowBackgrounds == {None, "", "#eeeeee"}
OddRowBackgrounds == {None, "", "#dddddd"}
NumericalFormats == {None, "", "{:,}"}
DateFormats == {None, "", "{:%b %d, %Y}"}
\* What client code writes when it modifies a rule in place.
ExtraProp == <<"color", "red">>
ExtraSelector == "td.patched"

VARIABLES
    data,          \* the DataFrame: sequence of [name, dtype], in column order
    heap,          \* the property lists; heap[a] is the list at address a
    built,         \* the TableStyler objects constructed so far
    args,          \* args[s]: the arguments s was constructed with
    columns,       \* columns[s]: self.columns, set by Styler.__init__
    table_styles,  \* table_styles[s]: sequence of [selector, props address]
    display,       \* display[s][n]: display format of column position n
    last,          \* the last format_columns call and what it returned
    edits          \* number of in-place modifications made by client code

vars == <<data, heap, built, args, columns, table_styles, display, last, edits>>

\* Addresses of the property lists of the module constants.
TEXT_ALIGN_LEFT == 1
TEXT_ALIGN_RIGHT == 2
DISPLAY_NONE == 3

\* The test "x != ''" in place of the truthiness of x.
Truthy_not_empty(x) == x # ""

\* Python truthiness of an Optional[str].
Truthy(x) == x # None /\ x # ""

Range(f) == {f[n] : n \in DOMAIN f}

\* Concatenation of two property lists into a new list.
merge_props(d1, d2) == d1 \o d2

\* Labels of the columns of df whose type is one of dtypes, in column order.
select_columns_by_type(df, dtypes) ==
    LET sel == SelectSeq(df, LAMBDA c : c.dtype \in Range(dtypes))
    IN  [n \in 1..Len(sel) |-> sel[n].name]

object_columns == select_columns_by_type(data, <<"O">>)

date_columns == select_columns_by_type(data, <<"<M8[ns]">>)

\* numerical_columns with the date columns left in.
numerical_columns_with_dates ==
    {data[n].name : n \in 1..Len(data)} \ Range(object_columns)

numerical_columns ==
    {data[n].name : n \in 1..Len(data)} \ Range(object_columns \o date_columns)

\* get_text_column_styles with the columns counted from 1.
get_text_column_styles_from_one(cols, text_columns) ==
    [n \in 1..Len(cols) |->
        [selector |-> "td.col" \o ToString(n),
         props |-> IF cols[n] \in Range(text_columns)
                   THEN TEXT_ALIGN_LEFT ELSE TEXT_ALIGN_RIGHT]]

\* One rule per column; enumerate() counts from 0, sequences from 1.
get_text_column_styles(cols, text_columns) ==
    [n \in 1..Len(cols) |->
        [selector |-> "td.col" \o ToString(n - 1),
         props |-> IF cols[n] \in Range(text_columns)
                   THEN TEXT_ALIGN_LEFT ELSE TEXT_ALIGN_RIGHT]]

\* The property lists get_default_styles allocates, in the order of the
\* rules that hold them.
default_props(background, foreground, even_row_background, odd_row_background) ==
    LET table == <<  <<"font-variant-numeric", "tabular-nums">>,
                     <<"border-spacing", "0">>,
                     <<"line-height", "1.35">>  >>
        headings == <<  <<"text-transform", "uppercase">>,
                        <<"color", foreground>>,
                        <<"background", background>>,
                        <<"border-collapse", "">>,
                        <<"padding", "0.75ex 1ch">>  >>
        even_row_color ==
            <<  <<"background", IF Truthy(even_row_background)
                                THEN even_row_background ELSE background>>  >>
        odd_row_color ==
            <<  <<"background", IF Truthy(odd_row_background)
                                THEN odd_row_background ELSE "#ffffff">>  >>
        hover == <<  <<"filter", "brightness(93%)">>  >>
        cell_padding == <<  <<"padding", "0.5ex 1ch">>, <<"max-width", "60ch">>  >>
        sticky == <<  <<"position", "sticky">>,
                      <<"position", "-webkit-sticky">>,
                      <<"top", "0">>  >>
    IN  << table, merge_props(heap[TEXT_ALIGN_LEFT], headings), even_row_color,
           odd_row_color, cell_padding, sticky, hover >>

\* get_default_styles with the sticky rule ahead of the padding rule.
get_default_styles_sticky_first(base) ==
    << [selector |-> "",                   props |-> base + 1],
       [selector |-> "th.col_heading",     props |-> base + 2],
       [selector |-> "tr:nth-child(even)", props |-> base + 3],
       [selector |-> "tr:nth-child(odd)",  props |-> base + 4],
       [selector |-> "th",                 props |-> base + 6],
       [selector |-> "th, tr, td",         props |-> base + 5],
       [selector |-> "tbody tr:hover",     props |-> base + 7] >>

\* The rules get_default_styles returns; base is the number of property
\* lists allocated before the call.
get_default_styles(base) ==
    << [selector |-> "",                   props |-> base + 1],
       [selector |-> "th.col_heading",     props |-> base + 2],
       [selector |-> "tr:nth-child(even)", props |-> base + 3],
       [selector |-> "tr:nth-child(odd)",  props |-> base + 4],
       [selector |-> "th, tr, td",         props |-> base + 5],
       [selector |-> "th",                 props |-> base + 6],
       [selector |-> "tbody tr:hover",     props |-> base + 7] >>

\* args[s] before s is constructed.
NoArgs == [background |-> None, foreground |-> None,
           even_row_background |-> None, odd_row_background |-> None]

\* last, when the last step was not a call of format_columns.
NoCall == [op |-> "other", self |-> None, ret |-> None,
           numerical_format |-> None, date_format |-> None]

DataFrames ==
    UNION {{[n \in 1..k |-> [name |-> ColumnNames[n], dtype |-> t[n]]] :
                t \in [1..k -> DTypes]} : k \in 0..MaxCols}

Init ==
    /\ data \in DataFrames
    /\ heap = << << <<"text-align", "left">> >>,
                 << <<"text-align", "right">> >>,
                 << <<"display", "none">> >> >>
    /\ built = {}
    /\ args = [s \in Stylers |-> NoArgs]
    /\ columns = [s \in Stylers |-> <<>>]
    /\ table_styles = [s \in Stylers |-> <<>>]
    /\ display = [s \in Stylers |-> <<>>]
    /\ last = NoCall
    /\ edits = 0

\* TableStyler.__init__
TableStyler(s, background, foreground, even_row_background, odd_row_background) ==
    /\ s \notin built
    /\ built' = built \cup {s}
    /\ args' = [args EXCEPT ![s] =
                  [background |-> background, foreground |-> foreground,
                   even_row_background |-> even_row_background,
                   odd_row_background |-> odd_row_background]]
    /\ columns' = [columns EXCEPT ![s] = [n \in 1..Len(data) |-> data[n].name]]
    /\ display' = [display EXCEPT ![s] = [n \in 1..Len(data) |-> DefaultDisplay]]
    /\ heap' = heap \o default_props(background, foreground,
                                     even_row_background, odd_row_background)
    /\ table_styles' = [table_styles EXCEPT ![s] =
                          get_default_styles(Len(heap))
                          \o get_text_column_styles(columns'[s],
                                                    object_columns \o date_columns)]
    /\ last' = NoCall
    /\ UNCHANGED <<data, edits>>

\* Styler.format(formatter, subset): the display function of every cell of
\* the columns of subset, located by position in self.data, becomes formatter.
format(d, formatter, subset) ==
    [n \in 1..Len(d) |->
        IF n <= Len(data) /\ data[n].name \in subset THEN formatter ELSE d[n]]

\* format_columns that also rebuilds the alignment rules from self.data.
format_columns_restyle(s, numerical_format, date_format) ==
    /\ s \in built
    /\ LET d1 == IF Truthy(numerical_format)
                 THEN format(display[s], numerical_format, numerical_columns)
                 ELSE display[s]
           d2 == IF Truthy(date_format)
                 THEN format(d1, date_format, Range(date_columns))
                 ELSE d1
       IN  display' = [display EXCEPT ![s] = d2]
    /\ table_styles' = [table_styles EXCEPT ![s] =
                          SubSeq(@, 1, 7)
                          \o get_text_column_styles(
                                 [n \in 1..Len(data) |-> data[n].name],
                                 object_columns \o date_columns)]
    /\ last' = [NoCall EXCEPT !.op = "format_columns", !.self = s, !.ret = s,
                               !.numerical_format = numerical_format,
                               !.date_format = date_format]
    /\ UNCHANGED <<data, heap, built, args, columns, edits>>

format_columns(s, numerical_format, date_format) ==
    /\ s \in built
    /\ LET d1 == IF Truthy(numerical_format)
                 THEN format(display[s], numerical_format, numerical_columns)
                 ELSE display[s]
           d2 == IF Truthy(date_format)
                 THEN format(d1, date_format, Range(date_columns))
                 ELSE d1
       IN  display' = [display EXCEPT ![s] = d2]
    /\ last' = [NoCall EXCEPT !.op = "format_columns", !.self = s, !.ret = s,
                               !.numerical_format = numerical_format,
                               !.date_format = date_format]
    /\ UNCHANGED <<data, heap, built, args, columns, table_styles, edits>>

\* The caller changes the type of a column of the DataFrame it handed over.
SetColumnType(n, t) ==
    /\ built # {}
    /\ n \in 1..Len(data)
    /\ data[n].dtype # t
    /\ data' = [data EXCEPT ![n].dtype = t]
    /\ last' = NoCall
    /\ UNCHANGED <<heap, built, args, columns, table_styles, display, edits>>

\* The caller moves the first column of the DataFrame behind the last one
\* (df[name] = df.pop(name)).
MoveColumn ==
    /\ built # {}
    /\ Len(data) > 1
    /\ data' = Tail(data) \o <<Head(data)>>
    /\ last' = NoCall
    /\ UNCHANGED <<heap, built, args, columns, table_styles, display, edits>>

\* Client code appends to the property list of rule r of s, in place.
AppendProp(s, r) ==
    /\ s \in built
    /\ r \in 1..Len(table_styles[s])
    /\ edits < MaxEdits
    /\ edits' = edits + 1
    /\ heap' = [heap EXCEPT ![table_styles[s][r].props] = Append(@, ExtraProp)]
    /\ last' = NoCall
    /\ UNCHANGED <<data, built, args, columns, table_styles, display>>

\* Client code rewrites the selector of rule r of s, in place.
SetSelector(s, r) ==
    /\ s \in built
    /\ r \in 1..Len(table_styles[s])
    /\ edits < MaxEdits
    /\ edits' = edits + 1
    /\ table_styles' = [table_styles EXCEPT ![s][r].selector = ExtraSelector]
    /\ last' = NoCall
    /\ UNCHANGED <<data, heap, built, args, columns, display>>

Construct(S, Even, Odd) ==
    \E s \in S, background \in Backgrounds, foreground \in Foregrounds,
       even_row_background \in Even, odd_row_background \in Odd :
        TableStyler(s, background, foreground,
                    even_row_background, odd_row_background)

Format(S) ==
    \E s \in S, numerical_format \in NumericalFormats,
       date_format \in DateFormats :
        format_columns(s, numerical_format, date_format)

Retype == \E n \in 1..MaxCols, t \in DTypes : SetColumnType(n, t)

EditProps == \E s \in Stylers, r \in 1..(7 + MaxCols) : AppendProp(s, r)

EditSelector == \E s \in Stylers, r \in 1..(7 + MaxCols) : SetSelector(s, r)

\* One TableStyler with the default row colours, its format_columns calls
\* and the changes the caller makes to its data.
Next ==
    \/ Construct(Single, {None}, {None})
    \/ Format(Single)
    \/ Retype
    \/ MoveColumn

Spec == Init /\ [][Next]_vars

\* Two TableStylers over one DataFrame, with every choice of row colours.
NextConfig == Construct(Stylers, EvenRowBackgrounds, OddRowBackgrounds)

SpecConfig == Init /\ [][NextConfig]_vars

\* Two TableStylers over one DataFrame and client code modifying, in place,
\* the rules it reads from them.
NextShared ==
    \/ Construct(Stylers, EvenRowBackgrounds, OddRowBackgrounds)
    \/ EditProps
    \/ EditSelector

SpecShared == Init /\ [][NextShared]_vars

(***************************************************************************)
(* What the rules say, read through the heap.                              *)
(***************************************************************************)
Left == << <<"text-align", "left">> >>
Right == << <<"text-align", "right">> >>

\* A rule with its property list in place of the list's address.
Deref(rule) == [selector |-> rule.selector, props |-> heap[rule.props]]

\* The rule list of s, by value.
Styles(s) == [r \in 1..Len(table_styles[s]) |-> Deref(table_styles[s][r])]

\* The default rules of s, by value.
DefaultStyles(s) == SubSeq(Styles(s), 1, 7)

\* The property list of the alignment rule of column position n of s.
Alignment(s, n) == heap[table_styles[s][7 + n].props]

\* The position of column label c at the construction of s.
PositionOf(s, c) == CHOOSE n \in 1..Len(columns[s]) : columns[s][n] = c

\* The value of the first "background" property of rule r of s.
BackgroundOf(s, r) == heap[table_styles[s][r].props][1][2]

DatetimeTags == {"<M8[ns]", "datetime64[ns, UTC]"}

DefaultSelectors ==
    << "", "th.col_heading", "tr:nth-child(even)", "tr:nth-child(odd)",
       "th, tr, td", "th", "tbody tr:hover" >>

ColumnSelectors == << "td.col0", "td.col1", "td.col2", "td.col3", "td.col4" >>

\* C1: in the rules __init__ builds, a column whose declared type is the
\* object tag or a datetime tag has text-align: left, every other column
\* text-align: right.  (SpecConfig never changes the data, so the declared
\* types are those of the construction.)
C1_AlignmentByDeclaredType ==
    \A s \in built : \A n \in 1..Len(data) :
        Alignment(s, n) = IF data[n].dtype \in {"O"} \cup DatetimeTags
                          THEN Left ELSE Right

\* C2: there are as many alignment rules as columns, and the n-th of them
\* (from 0) has the selector "td.col<n>", whatever the label of the column.
C2_OneRulePerPosition ==
    \A s \in built :
        /\ Len(table_styles[s]) - 7 = Len(columns[s])
        /\ Len(columns[s]) = Len(data)
        /\ \A n \in 1..Len(columns[s]) :
              table_styles[s][7 + n].selector = ColumnSelectors[n]

C2_Witness ==
    /\ "s1" \in built
    /\ Len(columns["s1"]) = 2
    /\ data[1].name # columns["s1"][1]

\* C3: a format_columns call sets the display format of every Numeric
\* column to numerical_format when that argument is given (not None), of
\* every Date column to date_format when that argument is given, and of no
\* other column.
C3_FormatsAppliedWhenProvided ==
    [][last'.op = "format_columns" =>
         \A n \in 1..Len(data) :
            display'[last'.self][n] =
               IF last'.numerical_format # None /\ data[n].name \in numerical_columns
               THEN last'.numerical_format
               ELSE IF last'.date_format # None /\ data[n].name \in Range(date_columns)
               THEN last'.date_format
               ELSE display[last'.self][n]]_vars

\* C4: the even-row rule has the background even_row_background when that
\* argument is given (not None) and background otherwise; the odd-row rule
\* has odd_row_background when given and #ffffff otherwise.
C4_RowBackgrounds ==
    \A s \in built :
        /\ BackgroundOf(s, 3) = IF args[s].even_row_background = None
                                THEN args[s].background
                                ELSE args[s].even_row_background
        /\ BackgroundOf(s, 4) = IF args[s].odd_row_background = None
                                THEN "#ffffff"
                                ELSE args[s].odd_row_background

C6_FormatNoneNone ==
    [][(/\ last'.op = "format_columns"
        /\ last'.numerical_format = None
        /\ last'.date_format = None)
       => /\ last'.ret = last'.self
          /\ UNCHANGED <<table_styles, heap, display, columns, data>>]_vars

C6_Witness ==
    /\ last.op = "format_columns"
    /\ last.numerical_format = None
    /\ last.date_format = None
    /\ \E n \in 1..Len(data) : data[n].name \in numerical_columns
    /\ \E n \in 1..Len(data) : display[last.self][n] = "{:,}"
    /\ \E n \in 1..Len(data) : display[last.self][n] = DefaultDisplay

\* C7: no format_columns call and no change of the data changes the rule
\* list of a constructed TableStyler.
C7_StylesNeverChange ==
    [][\A s \in built : Styles(s)' = Styles(s)]_vars

C7_Witness ==
    /\ "s1" \in built
    /\ Len(data) = 2
    /\ data[1].name # columns["s1"][1]
    /\ \E n \in 1..2 : display["s1"][n] # DefaultDisplay
    /\ \E n \in 1..2 :
          /\ data[n].dtype = "O"
          /\ Alignment("s1", PositionOf("s1", data[n].name)) = Right

\* C8: the columns a format_columns call formats as Numeric have a right
\* alignment rule and those it formats as Date a left one, whatever was done
\* to the data since the construction.
C8_FormattedAsAligned ==
    last.op = "format_columns" =>
        \A n \in 1..Len(data) :
            /\ (Truthy(last.numerical_format) /\ data[n].name \in numerical_columns)
                  => Alignment(last.self, PositionOf(last.self, data[n].name)) = Right
            /\ (Truthy(last.date_format) /\ data[n].name \in Range(date_columns))
                  => Alignment(last.self, PositionOf(last.self, data[n].name)) = Left

\* C9: a modification in place of one rule changes no other rule of any
\* TableStyler and neither module constant, and a construction builds its
\* alignment rules with the property lists the module was loaded with.
C9_NoSharedRules ==
    [][/\ heap'[TEXT_ALIGN_LEFT] = heap[TEXT_ALIGN_LEFT]
       /\ heap'[TEXT_ALIGN_RIGHT] = heap[TEXT_ALIGN_RIGHT]
       /\ Cardinality({sr \in Stylers \X (1..(7 + MaxCols)) :
                          /\ sr[1] \in built
                          /\ sr[2] <= Len(table_styles[sr[1]])
                          /\ Deref(table_styles[sr[1]][sr[2]])'
                                # Deref(table_styles[sr[1]][sr[2]])}) <= 1
       /\ \A s \in built' \ built : \A n \in 1..Len(data) :
              Alignment(s, n)' \in {Left, Right}]_vars

====
